---------------------------- MODULE Spec2Model ----------------------------
(***************************************************************************)
(* A model of the hand-written codecs of bird-server/src/protocol.rs       *)
(* (BrigadierNodeRangeProperties, BrigadierNode, ChunkDataHeightMap,       *)
(* CompactLongsWriter, CompactLongsReader) and of the size derive of       *)
(* bird-protocol-macro/src/size.rs.                                        *)
(*                                                                         *)
(* Bytes are numbers 0..255 and a byte stream is a sequence of them.  An   *)
(* Option is a sequence of length at most one: <<>> is None, <<x>> is      *)
(* Some(x).  A 64-bit word is the set of the positions (0..63) of its one  *)
(* bits, so that shifts, masks and ors are exact at the full width.        *)
(***************************************************************************)
EXTENDS Integers, Sequences, FiniteSets, TLC

VARIABLES
    pc,       \* the position of the operation under study
    kind,     \* codec: which hand-written codec the value belongs to
    value,    \* codec: the value handed to write
    tail,     \* codec: the bytes that follow the value in the read buffer
    wire,     \* codec: the bytes write has produced
    result,   \* codec: what read has returned
    build,    \* compact longs: "debug" (debug assertions and overflow checks) or "release"
    BITS,     \* compact longs: the const parameter BITS
    COUNT,    \* compact longs: the const parameter COUNT of the reader
    pattern,  \* compact longs: which numbers the caller pushes
    pushed,   \* compact longs: the numbers pushed so far, in order
    writer,   \* compact longs: the CompactLongsWriter
    words,    \* compact longs: the words the reader's source held at construction
    iterator, \* compact longs: the words left in the reader's source
    reader,   \* compact longs: the CompactLongsReader
    yielded,  \* compact longs: the values next has returned so far, in order
    nones,    \* compact longs: how many times next has returned None
    item,     \* size derive: the DeriveInput (its data and its bp attributes)
    min_variants_size,  \* size derive: the variant minimums collected so far
    max_variants_size,  \* size derive: the variant maximums collected so far
    size      \* size derive: the SIZE of the generated impl, or the error

codecVars == <<kind, value, tail, wire, result>>
compactVars == <<build, BITS, COUNT, pattern, pushed, writer, words, iterator, reader,
                 yielded, nones>>
sizeVars == <<item, min_variants_size, max_variants_size, size>>
vars == <<pc, codecVars, compactVars, sizeVars>>
\* what an action of one component leaves alone
outsideCodec == <<compactVars, sizeVars>>
outsideCompact == <<codecVars, sizeVars>>
outsideSize == <<codecVars, compactVars>>

None == <<>>
Some(x) == <<x>>
IsSome(o) == Len(o) = 1

\* ------------------------------------------------------------------------
\* Primitive codecs of the bird_protocol crate (big-endian fixed integers,
\* 7-bit variable-length integers, length-prefixed strings and arrays).
\* ------------------------------------------------------------------------

Ok(v, rest) == [ok |-> TRUE, v |-> v, rest |-> rest]
Err == [ok |-> FALSE, v |-> <<>>, rest |-> <<>>]

Drop(s, n) == SubSeq(s, n + 1, Len(s))
Take(s, n) == SubSeq(s, 1, n)

RECURSIVE Concat(_)
Concat(ss) == IF ss = <<>> THEN <<>> ELSE Head(ss) \o Concat(Tail(ss))

WriteU8(b) == <<b>>
ReadU8(c) == IF Len(c) < 1 THEN Err ELSE Ok(c[1], Tail(c))

WriteBool(b) == <<IF b THEN 1 ELSE 0>>
ReadBool(c) == IF Len(c) < 1 THEN Err ELSE Ok(c[1] # 0, Tail(c))

\* i32, big-endian two's complement
WriteI32(v) ==
    << (v \div 16777216) % 256, (v \div 65536) % 256, (v \div 256) % 256, v % 256 >>
ReadI32(c) ==
    IF Len(c) < 4 THEN Err
    ELSE LET hi == IF c[1] >= 128 THEN c[1] - 256 ELSE c[1]
         IN  Ok(hi * 16777216 + c[2] * 65536 + c[3] * 256 + c[4], Drop(c, 4))

\* VarInt: the i32 taken as 32 unsigned bits, 7 bits per byte, low group first
VarIntGroup(v, k) ==
    IF k = 4 THEN (v \div 268435456) % 16
    ELSE (v \div (128 ^ k)) % 128
VarIntLen(v) ==
    IF v < 0 THEN 5
    ELSE IF v < 128 THEN 1
    ELSE IF v < 16384 THEN 2
    ELSE IF v < 2097152 THEN 3
    ELSE IF v < 268435456 THEN 4
    ELSE 5
WriteVarInt(v) ==
    [k \in 1..VarIntLen(v) |->
        VarIntGroup(v, k - 1) + (IF k < VarIntLen(v) THEN 128 ELSE 0)]
RECURSIVE VarIntEnd(_, _)
\* the index of the first byte without a continuation bit, 0 when there is none
\* among the first five bytes
VarIntEnd(c, i) ==
    IF i > 5 \/ i > Len(c) THEN 0
    ELSE IF c[i] < 128 THEN i
    ELSE VarIntEnd(c, i + 1)
ReadVarInt(c) ==
    LET n == VarIntEnd(c, 1)
        g(k) == IF k <= n THEN c[k] % 128 ELSE 0
        top == g(5) % 16
        low == g(1) + g(2) * 128 + g(3) * 16384 + g(4) * 2097152
    IN  IF n = 0 THEN Err
        ELSE Ok((IF top >= 8 THEN top - 16 ELSE top) * 268435456 + low, Drop(c, n))

\* UTF-8 validity of a byte string
RECURSIVE Utf8Valid(_)
Utf8Valid(s) ==
    LET cont(i) == i <= Len(s) /\ s[i] \in 128..191
        b == s[1]
    IN  IF s = <<>> THEN TRUE
        ELSE IF b < 128 THEN Utf8Valid(Drop(s, 1))
        ELSE IF b \in 194..223 THEN cont(2) /\ Utf8Valid(Drop(s, 2))
        ELSE IF b = 224 THEN cont(2) /\ s[2] >= 160 /\ cont(3) /\ Utf8Valid(Drop(s, 3))
        ELSE IF b = 237 THEN cont(2) /\ s[2] <= 159 /\ cont(3) /\ Utf8Valid(Drop(s, 3))
        ELSE IF b \in 225..239 THEN cont(2) /\ cont(3) /\ Utf8Valid(Drop(s, 3))
        ELSE IF b = 240 THEN cont(2) /\ s[2] >= 144 /\ cont(3) /\ cont(4)
                             /\ Utf8Valid(Drop(s, 4))
        ELSE IF b = 244 THEN cont(2) /\ s[2] <= 143 /\ cont(3) /\ cont(4)
                             /\ Utf8Valid(Drop(s, 4))
        ELSE IF b \in 241..243 THEN cont(2) /\ cont(3) /\ cont(4) /\ Utf8Valid(Drop(s, 4))
        ELSE FALSE

\* &str: a VarInt byte length, then that many bytes of UTF-8
WriteStr(s) == WriteVarInt(Len(s)) \o s
ReadStr(c) ==
    LET n == ReadVarInt(c)
    IN  IF ~n.ok THEN Err
        ELSE IF n.v < 0 \/ n.v > Len(n.rest) THEN Err
        ELSE IF ~Utf8Valid(Take(n.rest, n.v)) THEN Err
        ELSE Ok(Take(n.rest, n.v), Drop(n.rest, n.v))

\* LengthProvidedArray<i32, VarInt, i32, i32>: a VarInt count, then the i32s
WriteI32Array(a) == WriteVarInt(Len(a)) \o Concat([i \in 1..Len(a) |-> WriteI32(a[i])])
RECURSIVE ReadI32s(_, _, _)
ReadI32s(c, n, acc) ==
    IF n = 0 THEN Ok(acc, c)
    ELSE LET x == ReadI32(c)
         IN  IF ~x.ok THEN Err ELSE ReadI32s(x.rest, n - 1, Append(acc, x.v))
ReadI32Array(c) ==
    LET n == ReadVarInt(c)
    IN  IF ~n.ok THEN Err
        ELSE IF n.v < 0 THEN Err
        ELSE ReadI32s(n.rest, n.v, <<>>)

\* ------------------------------------------------------------------------
\* BrigadierNodeRangeProperties<T>.  T is one of "i32", "i64", "f32", "f64";
\* an i32 is a number, a value of the other types is its big-endian bytes.
\* ------------------------------------------------------------------------

WidthT(T) == IF T \in {"i32", "f32"} THEN 4 ELSE 8
WriteT(T, x) == IF T = "i32" THEN WriteI32(x) ELSE x
ReadT(T, c) ==
    IF T = "i32" THEN ReadI32(c)
    ELSE IF Len(c) < WidthT(T) THEN Err
    ELSE Ok(Take(c, WidthT(T)), Drop(c, WidthT(T)))

RangeProperties(min, max) == [min |-> min, max |-> max]

RangeWriteFlags(v) ==
    (IF IsSome(v.min) THEN 1 ELSE 0) + (IF IsSome(v.max) THEN 2 ELSE 0)

RangeWrite(T, v) ==
    WriteU8(RangeWriteFlags(v))
        \o (IF IsSome(v.min) THEN WriteT(T, v.min[1]) ELSE <<>>)
        \o (IF IsSome(v.max) THEN WriteT(T, v.max[1]) ELSE <<>>)

\* flags & 0x2 != 0
RangeReadsMin(flags) == (flags \div 2) % 2 = 1
\* flags & 0x1 != 0
RangeReadsMax(flags) == flags % 2 = 1

RangeRead(T, c) ==
    LET flags == ReadU8(c)
        min == IF flags.ok /\ RangeReadsMin(flags.v) THEN ReadT(T, flags.rest)
               ELSE Ok(0, flags.rest)
        afterMin == IF min.ok THEN min.rest ELSE <<>>
        max == IF flags.ok /\ min.ok /\ RangeReadsMax(flags.v) THEN ReadT(T, afterMin)
               ELSE Ok(0, afterMin)
    IN  IF ~flags.ok \/ ~min.ok \/ ~max.ok THEN Err
        ELSE Ok(RangeProperties(
                    IF RangeReadsMin(flags.v) THEN Some(min.v) ELSE None,
                    IF RangeReadsMax(flags.v) THEN Some(max.v) ELSE None),
                max.rest)

\* ------------------------------------------------------------------------
\* BrigadierNodeParser: a derived enum, keyed by a VarInt holding the
\* variant's index, followed by the variant's fields.
\* ------------------------------------------------------------------------

ParserVariants == 48
Parser(id, payload) == [id |-> id, payload |-> payload]

\* the range type of Float, Double, Integer, Long
ParserRangeT(id) ==
    IF id = 1 THEN "f32" ELSE IF id = 2 THEN "f64" ELSE IF id = 3 THEN "i32" ELSE "i64"

ParserWrite(p) ==
    WriteVarInt(p.id)
        \o (IF p.id \in 1..4 THEN RangeWrite(ParserRangeT(p.id), p.payload[1])
            ELSE IF p.id = 5 THEN WriteVarInt(p.payload[1])
            ELSE IF p.id = 6 THEN WriteU8(p.payload[1])
            ELSE IF p.id = 29 THEN WriteBool(p.payload[1])
            ELSE IF p.id \in {43, 44} THEN WriteStr(p.payload[1])
            ELSE <<>>)

ParserRead(c) ==
    LET id == ReadVarInt(c)
        field == IF ~id.ok THEN Err
                 ELSE IF id.v \in 1..4 THEN RangeRead(ParserRangeT(id.v), id.rest)
                 ELSE IF id.v = 5 THEN
                     LET k == ReadVarInt(id.rest)
                     IN  IF k.ok /\ k.v \in 0..2 THEN k ELSE Err
                 ELSE IF id.v = 6 THEN ReadU8(id.rest)
                 ELSE IF id.v = 29 THEN ReadBool(id.rest)
                 ELSE IF id.v \in {43, 44} THEN ReadStr(id.rest)
                 ELSE Err
    IN  IF ~id.ok \/ id.v \notin 0..(ParserVariants - 1) THEN Err
        ELSE IF id.v \in (1..6) \cup {29, 43, 44} THEN
            (IF field.ok THEN Ok(Parser(id.v, <<field.v>>), field.rest) ELSE Err)
        ELSE Ok(Parser(id.v, <<>>), id.rest)

\* ------------------------------------------------------------------------
\* BrigadierNodeFlags and BrigadierNode
\* ------------------------------------------------------------------------

ROOT_NODE_TYPE == 0
LITERAL_NODE_TYPE == 1
ARGUMENT_NODE_TYPE == 2

\* #[bitfield(i8)]: node_type in bits 0..1, executable in bit 2, redirect in
\* bit 3, suggestions_type in bit 4, three bits of padding
BrigadierNodeFlags(node_type, executable, redirect, suggestions_type) ==
    node_type + (IF executable THEN 4 ELSE 0) + (IF redirect THEN 8 ELSE 0)
        + (IF suggestions_type THEN 16 ELSE 0)
FlagsNodeType(f) == f % 4
FlagsExecutable(f) == (f \div 4) % 2 = 1
FlagsRedirect(f) == (f \div 8) % 2 = 1
FlagsSuggestionsType(f) == (f \div 16) % 2 = 1

BrigadierNode(executable, children, redirect_node, name, parser, suggestions_type) ==
    [executable |-> executable, children |-> children, redirect_node |-> redirect_node,
     name |-> name, parser |-> parser, suggestions_type |-> suggestions_type]

NodeWriteFlags(n) ==
    BrigadierNodeFlags(
        IF IsSome(n.name)
            THEN (IF IsSome(n.parser) THEN ARGUMENT_NODE_TYPE ELSE LITERAL_NODE_TYPE)
            ELSE ROOT_NODE_TYPE,
        n.executable, IsSome(n.redirect_node), IsSome(n.suggestions_type))

\* the items write emits after the flag byte and the children array
NodeWriteRedirect(n) == IF IsSome(n.redirect_node) THEN WriteI32(n.redirect_node[1]) ELSE <<>>
NodeWriteName(n) == <<>>
NodeWriteParser(n) == IF IsSome(n.parser) THEN ParserWrite(n.parser[1]) ELSE <<>>
NodeWriteSuggestions(n) ==
    IF IsSome(n.suggestions_type) THEN WriteStr(n.suggestions_type[1]) ELSE <<>>

NodeWrite(n) ==
    WriteU8(NodeWriteFlags(n))
        \o WriteI32Array(n.children)
        \o NodeWriteRedirect(n)
        \o NodeWriteName(n)
        \o NodeWriteParser(n)
        \o NodeWriteSuggestions(n)

\* a read that takes a parser for the argument node type only
NodeHasParser_ArgumentOnly(node_type) == node_type = ARGUMENT_NODE_TYPE

\* the `_` arm of the match on the node type: every type that is neither root
\* nor literal has a name and a parser
NodeHasParser(node_type) == node_type \notin {ROOT_NODE_TYPE, LITERAL_NODE_TYPE}

NodeRead(c) ==
    LET flags == ReadU8(c)
        children == IF flags.ok THEN ReadI32Array(flags.rest) ELSE Err
        redirect == IF ~children.ok THEN Err
                    ELSE IF FlagsRedirect(flags.v) THEN ReadVarInt(children.rest)
                    ELSE Ok(0, children.rest)
        hasName == flags.ok /\ FlagsNodeType(flags.v) # ROOT_NODE_TYPE
        hasParser == flags.ok /\ NodeHasParser(FlagsNodeType(flags.v))
        name == IF ~redirect.ok THEN Err
                ELSE IF hasName THEN ReadStr(redirect.rest)
                ELSE Ok(<<>>, redirect.rest)
        parser == IF ~name.ok THEN Err
                  ELSE IF hasParser THEN ParserRead(name.rest)
                  ELSE Ok(<<>>, name.rest)
        suggestions == IF ~parser.ok THEN Err
                       ELSE IF FlagsSuggestionsType(flags.v) THEN ReadStr(parser.rest)
                       ELSE Ok(<<>>, parser.rest)
    IN  IF ~suggestions.ok THEN Err
        ELSE Ok(BrigadierNode(
                    FlagsExecutable(flags.v),
                    children.v,
                    IF FlagsRedirect(flags.v) THEN Some(redirect.v) ELSE None,
                    IF hasName THEN Some(name.v) ELSE None,
                    IF hasParser THEN Some(parser.v) ELSE None,
                    IF FlagsSuggestionsType(flags.v) THEN Some(suggestions.v) ELSE None),
                suggestions.rest)

\* ------------------------------------------------------------------------
\* 64-bit words.  A shift by 64 or more panics in a build with overflow
\* checks and shifts by the amount modulo 64 in a build without.
\* ------------------------------------------------------------------------

WordBits == 64
Bit == 0..(WordBits - 1)

Shl(w, k) == {i + k : i \in w} \cap Bit
Shr(w, k) == {i - k : i \in {j \in w : j >= k}}
ShiftOverflows(k) == k >= WordBits
WrappedShift(k) == k % WordBits
\* w - 1, wrapping
Dec(w) ==
    IF w = {} THEN Bit
    ELSE LET m == CHOOSE i \in w : \A j \in w : i <= j
         IN  (w \ {m}) \cup (0..(m - 1))
One == {0}
\* the word of the unit tests,
\* 0b111111111_001111111_000011111_000000111_000000001_0
TestWord == {1} \cup (10..12) \cup (19..23) \cup (28..34) \cup (37..45)
\* number < bound, for a bound with a single bit set
BelowPow2(number, bound) == \A i \in number : \A j \in bound : i < j

\* ------------------------------------------------------------------------
\* CompactLongsWriter<BITS>
\* ------------------------------------------------------------------------

ELEMENTS_IN_LONG(bits) == WordBits \div bits
GAP(bits) == WordBits % bits

WriterNew == [vec |-> <<>>, current |-> {}, current_index |-> 0]

\* debug_assert!(number < (1 << (BITS+1))): "skipped" without debug
\* assertions, else "overflow" (the shift panics), "failed" or "passed"
PushAssert(bld, bits, number) ==
    IF bld # "debug" THEN "skipped"
    ELSE IF ShiftOverflows(bits + 1) THEN "overflow"
    ELSE IF BelowPow2(number, Shl(One, bits + 1)) THEN "passed"
    ELSE "failed"

\* the writer with a full accumulator moved to the output
WriterFlushed(bits, w) ==
    IF w.current_index = ELEMENTS_IN_LONG(bits)
        THEN [vec |-> Append(w.vec, w.current), current |-> {}, current_index |-> 0]
        ELSE w

PushShift(bits, w) == w.current_index * bits + GAP(bits)

\* push past its assertion; the shift is below 64 whenever it is evaluated
WriterPush(bits, w, number) ==
    LET f == WriterFlushed(bits, w)
    IN  [f EXCEPT !.current = f.current \cup Shl(number, WrappedShift(PushShift(bits, f))),
                  !.current_index = f.current_index + 1]

WriterElements(bits, w) == w.current_index + Len(w.vec) * ELEMENTS_IN_LONG(bits)

\* a finish that does not look at current_index
WriterFinish_Always(w) == Append(w.vec, w.current)

WriterFinish(w) ==
    IF w.current_index # 0 THEN Append(w.vec, w.current) ELSE w.vec

\* ------------------------------------------------------------------------
\* CompactLongsReader<I, BITS, COUNT>
\* ------------------------------------------------------------------------

\* Iterator::next of the word source
SourceNext(it) == IF it = <<>> THEN None ELSE Some(Head(it))
SourceRest(it) == IF it = <<>> THEN <<>> ELSE Tail(it)

\* CompactLongsReader::new: None on an empty source
ReaderNew(bits, it) ==
    IF it = <<>> THEN None
    ELSE Some([current_long |-> Shr(Head(it), WordBits % bits),
               next_long |-> SourceNext(Tail(it)),
               current_index |-> 0])
ReaderNewRest(it) == SourceRest(SourceRest(it))

\* a last index that is COUNT itself, not its remainder
ReaderLastIndex_Count(bits, count) == count

\* a last index that is 0 when COUNT is a multiple of the elements per word
ReaderLastIndex_Remainder(bits, count) == count % (WordBits \div bits)

\* the index at which the last word ends
ReaderLastIndex(bits, count) ==
    LET r == count % (WordBits \div bits)
    IN  IF r = 0 THEN WordBits \div bits ELSE r

\* a next that stops at the last index in every word, not in the last only
ReaderAtEnd_NoLookahead(bits, count, r) ==
    r.current_index = ReaderLastIndex(bits, count)

ReaderAtEnd(bits, count, r) ==
    r.next_long = None /\ r.current_index = ReaderLastIndex(bits, count)

ReaderLoads(bits, r) == r.current_index = WordBits \div bits

\* the reader after the next word, if one is due, has been loaded
ReaderLoaded(bits, r, it) ==
    IF ReaderLoads(bits, r)
        THEN [current_long |-> Shr(r.next_long[1], WordBits % bits),
              next_long |-> SourceNext(it),
              current_index |-> 0]
        ELSE r
ReaderLoadedRest(bits, r, it) == IF ReaderLoads(bits, r) THEN SourceRest(it) ELSE it

\* (1 << BITS) - 1 without overflow checks
ReaderMask(bits) == Dec(Shl(One, WrappedShift(bits)))

\* the value a call that reaches the extraction returns, and the reader after it
ReaderResult(bits, r) == r.current_long \cap ReaderMask(bits)
ReaderAdvanced(bits, r) ==
    [r EXCEPT !.current_long = Shr(r.current_long, WrappedShift(bits)),
              !.current_index = r.current_index + 1]

\* ------------------------------------------------------------------------
\* ChunkDataHeightMap: a compound of the NBT format holding one long array
\* named MOTION_BLOCKING.  The value is a view of 37 words, either of their
\* bytes (Raw) or of the words themselves (Longs).
\* ------------------------------------------------------------------------

\* u64, big-endian
WriteU64(w) ==
    [k \in 1..8 |->
        LET bit(b) == IF (8 * (8 - k) + b) \in w THEN 2 ^ b ELSE 0
        IN  bit(0) + bit(1) + bit(2) + bit(3) + bit(4) + bit(5) + bit(6) + bit(7)]
ReadU64(c) ==
    IF Len(c) < 8 THEN Err
    ELSE Ok({i \in Bit : (c[8 - (i \div 8)] \div (2 ^ (i % 8))) % 2 = 1}, Drop(c, 8))

\* u16, big-endian
WriteU16(n) == <<(n \div 256) % 256, n % 256>>
ReadU16(c) == IF Len(c) < 2 THEN Err ELSE Ok(c[1] * 256 + c[2], Drop(c, 2))

\* "MOTION_BLOCKING"
CHUNK_DATA_HEIGHT_MAP_KEY == <<77, 79, 84, 73, 79, 78, 95, 66, 76, 79, 67, 75, 73, 78, 71>>
HEIGHT_MAP_LONGS == 37
TAG_END == 0
TAG_COMPOUND == 10
TAG_LONG_ARRAY == 12

\* crate::nbt: the unnamed root compound is entered, a name is a u16 byte
\* length and the bytes
write_compound_enter == <<TAG_COMPOUND>> \o WriteU16(0)
write_nbt_string(name) == WriteU16(Len(name)) \o name
read_nbt_string(c) ==
    LET n == ReadU16(c)
    IN  IF ~n.ok \/ n.v > Len(n.rest) THEN Err
        ELSE Ok(Take(n.rest, n.v), Drop(n.rest, n.v))
read_compound_enter(c) ==
    IF Len(c) < 1 \/ c[1] # TAG_COMPOUND THEN Err ELSE read_nbt_string(Tail(c))

\* the payload of a tag of a type without nested tags: its bytes, without
\* the length prefix of an array or a string
NbtPayload(tag, c) ==
    LET fixed(n) == IF Len(c) < n THEN Err ELSE Ok(Take(c, n), Drop(c, n))
        counted(width) ==
            LET n == ReadI32(c)
            IN  IF ~n.ok \/ n.v < 0 \/ n.v * width > Len(n.rest) THEN Err
                ELSE Ok(Take(n.rest, n.v * width), Drop(n.rest, n.v * width))
    IN  IF tag = 1 THEN fixed(1)
        ELSE IF tag = 2 THEN fixed(2)
        ELSE IF tag \in {3, 5} THEN fixed(4)
        ELSE IF tag \in {4, 6} THEN fixed(8)
        ELSE IF tag = 7 THEN counted(1)
        ELSE IF tag = 8 THEN read_nbt_string(c)
        ELSE IF tag = 11 THEN counted(4)
        ELSE IF tag = TAG_LONG_ARRAY THEN counted(8)
        ELSE Err

\* read_named_nbt_tag: the entries of the compound are read up to its end
\* tag; the value is None or Some(<<tag, payload>>) for the entry of that name
RECURSIVE read_named_nbt_tag(_, _, _)
read_named_nbt_tag(key, c, found) ==
    IF Len(c) < 1 THEN Err
    ELSE IF c[1] = TAG_END THEN Ok(found, Tail(c))
    ELSE LET name == read_nbt_string(Tail(c))
             payload == IF name.ok THEN NbtPayload(c[1], name.rest) ELSE Err
         IN  IF ~payload.ok THEN Err
             ELSE read_named_nbt_tag(key, payload.rest,
                      IF found = None /\ name.v = key THEN Some(<<c[1], payload.v>>)
                      ELSE found)

Raw(data) == [view |-> "Raw", data |-> data]
Longs(data) == [view |-> "Longs", data |-> data]
\* the derived PartialEq of ChunkDataHeightMapInner
HeightMapEq(a, b) == a.view = b.view /\ a.data = b.data

HeightMapWrite(v) ==
    write_compound_enter
        \o <<TAG_LONG_ARRAY>>
        \o write_nbt_string(CHUNK_DATA_HEIGHT_MAP_KEY)
        \o (IF v.view = "Raw" THEN WriteI32(HEIGHT_MAP_LONGS) \o v.data
            ELSE WriteI32(Len(v.data)) \o Concat([i \in 1..Len(v.data) |-> WriteU64(v.data[i])]))
        \o <<TAG_END>>

\* a read that does not look at the length of the long array
HeightMapOfEntry_AnyLength(entry) ==
    IF entry # None /\ entry[1][1] = TAG_LONG_ARRAY
        THEN Some(Raw(entry[1][2]))
        ELSE None

\* what read makes of the entry it has found
HeightMapOfEntry(entry) ==
    IF entry # None /\ entry[1][1] = TAG_LONG_ARRAY
            /\ Len(entry[1][2]) = HEIGHT_MAP_LONGS * 8
        THEN Some(Raw(entry[1][2]))
        ELSE None

HeightMapRead(c) ==
    LET enter == read_compound_enter(c)
        entry == IF enter.ok THEN read_named_nbt_tag(CHUNK_DATA_HEIGHT_MAP_KEY, enter.rest, None)
                 ELSE Err
    IN  IF ~entry.ok THEN Err
        ELSE IF HeightMapOfEntry(entry.v) = None THEN Err
        ELSE Ok(HeightMapOfEntry(entry.v)[1], entry.rest)

\* ------------------------------------------------------------------------
\* Size bounds.  A u32 is a pair <<high, low>> of 16-bit halves, so that
\* sums are exact up to and beyond 2^32 - 1.
\* ------------------------------------------------------------------------

Half == 2 ^ 16
U32(n) == <<n \div Half, n % Half>>
U32Max == <<Half - 1, Half - 1>>
U32Less(a, b) == a[1] < b[1] \/ (a[1] = b[1] /\ a[2] < b[2])

\* u32::saturating_add
SaturatingAdd(a, b) ==
    LET low == a[2] + b[2]
        high == a[1] + b[1] + (low \div Half)
    IN  IF high >= Half THEN U32Max ELSE <<high, low % Half>>

\* bird_protocol::__private::add_u32_without_overflow_array
RECURSIVE add_u32_without_overflow_array(_)
add_u32_without_overflow_array(a) ==
    IF a = <<>> THEN U32(0)
    ELSE SaturatingAdd(Head(a), add_u32_without_overflow_array(Tail(a)))

\* bird_protocol::__private::min_u32_array and max_u32_array, of a
\* non-empty array
RECURSIVE min_u32_array(_)
min_u32_array(a) ==
    IF Len(a) = 1 THEN a[1]
    ELSE LET m == min_u32_array(Tail(a))
         IN  IF U32Less(m, a[1]) THEN m ELSE a[1]
RECURSIVE max_u32_array(_)
max_u32_array(a) ==
    IF Len(a) = 1 THEN a[1]
    ELSE LET m == max_u32_array(Tail(a))
         IN  IF U32Less(a[1], m) THEN m ELSE a[1]

\* ------------------------------------------------------------------------
\* The size derive.  A type is given by the SIZE of its ProtocolSize impl; a
\* field by its declared type and the type of its `variant` attribute, if
\* any; an enum variant by its fields and the byte sizes of the constants of
\* its `ghost` attribute.
\* ------------------------------------------------------------------------

Type(start, end) == [start |-> start, end |-> end]
Field(ty, variant) == [ty |-> ty, variant |-> variant]
Variant(fields, ghost) == [fields |-> fields, ghost |-> ghost]

\* the SIZE of the fixed-width types (T of the range properties, u8, bool)
\* and of Option<ty>, which is written as a bool followed by the value when
\* there is one
SizeOfT(T) == Type(U32(WidthT(T)), U32(WidthT(T)))
SizeOfU8 == Type(U32(1), U32(1))
SizeOfOption(ty) ==
    Type(U32(1), add_u32_without_overflow_array(<<U32(1), ty.end>>))
\* bird_protocol::add_protocol_sizes_ty!: the pointwise sum of the SIZEs
add_protocol_sizes_ty(tys) ==
    Type(add_u32_without_overflow_array([i \in 1..Len(tys) |-> tys[i].start]),
         add_u32_without_overflow_array([i \in 1..Len(tys) |-> tys[i].end]))
\* impl ProtocolSize for BrigadierNodeRangeProperties<T>
RangeSize(T) ==
    add_protocol_sizes_ty(<<SizeOfOption(SizeOfT(T)), SizeOfOption(SizeOfT(T)), SizeOfU8>>)

\* <#ty as ProtocolSize>::SIZE.start and .end
min_size_ts(ty) == ty.start
max_size_ts(ty) == ty.end

\* a derive that forgets the `variant` attribute
FieldSizeType_DeclaredOnly(field) == field.ty

\* field_attributes.variant.unwrap_or_else(|| field.ty)
FieldSizeType(field) == IF IsSome(field.variant) THEN field.variant[1] ELSE field.ty

\* a derive that sums the bounds with the plain, wrapping addition of u32
RECURSIVE WrappingSum(_)
WrappingSum(a) ==
    IF a = <<>> THEN U32(0)
    ELSE LET rest == WrappingSum(Tail(a))
             low == Head(a)[2] + rest[2]
         IN  <<(Head(a)[1] + rest[1] + (low \div Half)) % Half, low % Half>>
fields_size_Wrapping(fields) ==
    << WrappingSum([i \in 1..Len(fields) |-> min_size_ts(FieldSizeType(fields[i]))]),
       WrappingSum([i \in 1..Len(fields) |-> max_size_ts(FieldSizeType(fields[i]))]) >>

fields_size(fields) ==
    << add_u32_without_overflow_array(
           [i \in 1..Len(fields) |-> min_size_ts(FieldSizeType(fields[i]))]),
       add_u32_without_overflow_array(
           [i \in 1..Len(fields) |-> max_size_ts(FieldSizeType(fields[i]))]) >>

\* what the loop over the variants pushes for one variant
VariantSize(variant) == fields_size(variant.fields)

\* a derive that prefers the key's `ty` to its `variant`
KeyType_TyFirst(it) == IF IsSome(it.key_ty) THEN it.key_ty ELSE it.key_variant

\* object_attributes.key_variant.or_else(|| object_attributes.key_ty)
KeyType(it) == IF IsSome(it.key_variant) THEN it.key_variant ELSE it.key_ty

NoSize == [ok |-> FALSE, error |-> "", start |-> U32(0), end |-> U32(0)]
SizeOk(start, end) == [ok |-> TRUE, error |-> "", start |-> start, end |-> end]
SizeErr(msg) == [ok |-> FALSE, error |-> msg, start |-> U32(0), end |-> U32(0)]

StructSize(it) ==
    LET fs == fields_size(it.fields)
    IN  SizeOk(fs[1], fs[2])

EnumSize(it, mins, maxs) ==
    LET key_ty == KeyType(it)
    IN  IF key_ty = None
            THEN SizeErr("You must set ty or variant for key of your enum")
        ELSE SizeOk(
                add_u32_without_overflow_array(<<min_size_ts(key_ty[1]), min_u32_array(mins)>>),
                add_u32_without_overflow_array(<<max_size_ts(key_ty[1]), max_u32_array(maxs)>>))

\* a derive that takes a union for a type without fields
UnionSize_Empty == SizeOk(U32(0), U32(0))

UnionSize == SizeErr("Union type is not supported")

\* ------------------------------------------------------------------------
\* The codec processes: a value is written, then read back from the bytes
\* written followed by the tail.
\* ------------------------------------------------------------------------

I32Samples == {0, 1, -1, 300}
OptI32Samples == {None} \cup {Some(x) : x \in I32Samples}
RangeValues == {RangeProperties(a, b) : a \in OptI32Samples, b \in OptI32Samples}
Tails == {<<>>, <<0>>, <<3, 255>>}

\* "a", "ab"
NameSamples == {<<97>>, <<97, 98>>}
\* "a:b"
IdentifierSamples == {<<97, 58, 98>>}
ParserSamples ==
    {Parser(0, <<>>), Parser(5, <<1>>), Parser(29, <<TRUE>>), Parser(44, <<<<97, 58, 98>>>>),
     Parser(3, <<RangeProperties(Some(0), Some(300))>>),
     Parser(3, <<RangeProperties(Some(1), None)>>)}
NodeValues ==
    {BrigadierNode(e, ch, rd, nm, ps, sg) :
        e \in BOOLEAN,
        ch \in {<<>>, <<1>>, <<-1, 300>>},
        rd \in {None, Some(0), Some(1), Some(300)},
        nm \in {None} \cup {Some(x) : x \in NameSamples},
        ps \in {None} \cup {Some(x) : x \in ParserSamples},
        sg \in {None} \cup {Some(x) : x \in IdentifierSamples}}

\* byte streams a peer may send where a node is expected: any flag byte (the
\* node-type bits 0..3, with and without padding bits), the children, and the
\* items the flag byte announces
NodeStreams ==
    {[flags |-> f, children |-> ch, redirect |-> rd, name |-> nm, parser |-> ps,
      suggestions |-> sg] :
        f \in (0..31) \cup {35, 131},
        ch \in {<<>>, <<1>>},
        rd \in {0, 300},
        nm \in NameSamples,
        ps \in ParserSamples,
        sg \in IdentifierSamples}
NodeStreamBytes(s) ==
    WriteU8(s.flags)
        \o WriteI32Array(s.children)
        \o (IF FlagsRedirect(s.flags) THEN WriteVarInt(s.redirect) ELSE <<>>)
        \o (IF FlagsNodeType(s.flags) # ROOT_NODE_TYPE THEN WriteStr(s.name) ELSE <<>>)
        \o (IF FlagsNodeType(s.flags) \in {ARGUMENT_NODE_TYPE, 3}
                THEN ParserWrite(s.parser) ELSE <<>>)
        \o (IF FlagsSuggestionsType(s.flags) THEN WriteStr(s.suggestions) ELSE <<>>)

SizeIdle ==
    /\ item = <<>>
    /\ min_variants_size = <<>>
    /\ max_variants_size = <<>>
    /\ size = NoSize

CompactIdle ==
    /\ build = "none"
    /\ BITS = 0
    /\ COUNT = 0
    /\ pattern = "none"
    /\ pushed = <<>>
    /\ writer = WriterNew
    /\ words = <<>>
    /\ iterator = <<>>
    /\ reader = None
    /\ yielded = <<>>
    /\ nones = 0

\* height maps of 37 words: all zero, all ones, the word of the unit tests,
\* and words that differ from each other
HeightMapWords ==
    {[i \in 1..HEIGHT_MAP_LONGS |-> w] : w \in {{}, Bit, TestWord}}
        \cup {[i \in 1..HEIGHT_MAP_LONGS |-> {i, 63 - i}]}
HeightMaps ==
    {Longs(ws) : ws \in HeightMapWords}
        \cup {Raw(Concat([i \in 1..Len(ws) |-> WriteU64(ws[i])])) : ws \in HeightMapWords}

\* byte streams a peer may send where a height map is expected: an unnamed
\* root tag, at most MaxEntries entries <<tag, name, payload>> of which at most
\* one is named MOTION_BLOCKING, the end tag, and `cut` bytes missing at the end
MaxEntries == 2
Streams ==
    LET bytes(n) == [i \in 1..n |-> i % 256]
        entries ==
            {<<TAG_LONG_ARRAY, CHUNK_DATA_HEIGHT_MAP_KEY, bytes(n * 8)>> :
                    n \in {0, HEIGHT_MAP_LONGS - 1, HEIGHT_MAP_LONGS, HEIGHT_MAP_LONGS + 1}}
                \cup {<<7, CHUNK_DATA_HEIGHT_MAP_KEY, bytes(HEIGHT_MAP_LONGS * 8)>>,
                      <<11, CHUNK_DATA_HEIGHT_MAP_KEY, bytes(HEIGHT_MAP_LONGS * 8)>>,
                      <<TAG_LONG_ARRAY, Take(CHUNK_DATA_HEIGHT_MAP_KEY, 14),
                        bytes(HEIGHT_MAP_LONGS * 8)>>,
                      <<1, <<120>>, <<5>>>>}
        named(es) == {i \in 1..Len(es) : es[i][2] = CHUNK_DATA_HEIGHT_MAP_KEY}
    IN  {[root |-> r, entries |-> es, cut |-> c] :
            r \in {TAG_COMPOUND, TAG_LONG_ARRAY},
            es \in {x \in UNION {[1..k -> entries] : k \in 0..MaxEntries} :
                       Cardinality(named(x)) <= 1},
            c \in {0, 1, 9}}
\* the bytes of a stream
StreamBytes(s) ==
    LET width(tag) == IF tag = 7 THEN 1 ELSE IF tag = 11 THEN 4 ELSE 8
        entry(e) ==
            <<e[1]>> \o write_nbt_string(e[2])
                \o (IF e[1] \in {7, 11, TAG_LONG_ARRAY}
                        THEN WriteI32(Len(e[3]) \div width(e[1])) ELSE <<>>)
                \o e[3]
        all == <<s.root>> \o WriteU16(0)
                   \o Concat([i \in 1..Len(s.entries) |-> entry(s.entries[i])])
                   \o <<TAG_END>>
    IN  Take(all, Len(all) - s.cut)

CodecIdle ==
    /\ kind = "none"
    /\ value = <<>>
    /\ tail = <<>>
    /\ wire = <<>>
    /\ result = Err

\* a value to write and read back, or a stream received from a peer to read
InitCodec ==
    /\ CompactIdle
    /\ SizeIdle
    /\ tail \in Tails
    /\ result = Err
    /\ \/ pc = "start" /\ wire = <<>> /\ kind = "range" /\ value \in RangeValues
       \/ pc = "start" /\ wire = <<>> /\ kind = "node" /\ value \in NodeValues
       \/ pc = "start" /\ wire = <<>> /\ kind = "heightmap" /\ value \in HeightMaps
       \/ pc = "written" /\ kind = "stream" /\ value \in Streams
              /\ wire = StreamBytes(value)
       \/ pc = "written" /\ kind = "nodestream" /\ value \in NodeStreams
              /\ wire = NodeStreamBytes(value)

WriteRange ==
    /\ pc = "start"
    /\ kind = "range"
    /\ wire' = RangeWrite("i32", value)
    /\ pc' = "written"
    /\ UNCHANGED <<kind, value, tail, result>>
    /\ UNCHANGED outsideCodec

ReadRange ==
    /\ pc = "written"
    /\ kind = "range"
    /\ result' = RangeRead("i32", wire \o tail)
    /\ pc' = "read"
    /\ UNCHANGED <<kind, value, tail, wire>>
    /\ UNCHANGED outsideCodec

WriteNode ==
    /\ pc = "start"
    /\ kind = "node"
    /\ wire' = NodeWrite(value)
    /\ pc' = "written"
    /\ UNCHANGED <<kind, value, tail, result>>
    /\ UNCHANGED outsideCodec

ReadNode ==
    /\ pc = "written"
    /\ kind \in {"node", "nodestream"}
    /\ result' = NodeRead(wire \o tail)
    /\ pc' = "read"
    /\ UNCHANGED <<kind, value, tail, wire>>
    /\ UNCHANGED outsideCodec

WriteHeightMap ==
    /\ pc = "start"
    /\ kind = "heightmap"
    /\ wire' = HeightMapWrite(value)
    /\ pc' = "written"
    /\ UNCHANGED <<kind, value, tail, result>>
    /\ UNCHANGED outsideCodec

ReadHeightMap ==
    /\ pc = "written"
    /\ kind \in {"heightmap", "stream"}
    /\ result' = HeightMapRead(wire \o tail)
    /\ pc' = "read"
    /\ UNCHANGED <<kind, value, tail, wire>>
    /\ UNCHANGED outsideCodec

NextCodec ==
    \/ WriteRange
    \/ ReadRange
    \/ WriteNode
    \/ ReadNode
    \/ WriteHeightMap
    \/ ReadHeightMap

SpecCodec == InitCodec /\ [][NextCodec]_vars

\* ------------------------------------------------------------------------
\* The compact longs processes.  In SpecCompact a caller pushes numbers
\* into a writer, finishes it and reads the words back with COUNT set to the
\* number of values pushed; in SpecReader a reader is built over any source
\* with any COUNT.
\* ------------------------------------------------------------------------

MaxWords == 3
MaxSrcWords == 3
MaxCount == 20
MaxNones == 2

Builds == {"debug", "release"}
BitsRange == 1..WordBits

Min(a, b) == IF a < b THEN a ELSE b
Fits(number, bits) == \A i \in number : i < bits

\* the numbers the caller pushes: "ones" is 2^BITS - 1 every time; "stairs"
\* repeats 1, 7, 31, 127, 511, 0, 0 cut to BITS bits; "wide" is 2^BITS and
\* "wider" 2^(BITS+1), which do not fit in BITS bits
Patterns(bits) ==
    {"ones", "stairs"} \cup (IF bits + 1 < WordBits THEN {"wide", "wider"} ELSE {})
PatternValue(pat, i, bits) ==
    IF pat = "ones" THEN 0..(bits - 1)
    ELSE IF pat = "stairs"
        THEN (IF i % 7 < 5 THEN 0..Min(2 * (i % 7), bits - 1) ELSE {})
    ELSE IF pat = "wide" THEN {bits}
    ELSE {bits + 1}

WordSamples == {Bit, TestWord}
Sources == {[i \in 1..n |-> w] : n \in 0..MaxSrcWords, w \in WordSamples}

InitCompact ==
    /\ pc = "writing"
    /\ CodecIdle
    /\ SizeIdle
    /\ build \in Builds
    /\ BITS \in BitsRange
    /\ COUNT = 0
    /\ pattern \in Patterns(BITS)
    /\ pushed = <<>>
    /\ writer = WriterNew
    /\ words = <<>>
    /\ iterator = <<>>
    /\ reader = None
    /\ yielded = <<>>
    /\ nones = 0

InitReader ==
    /\ pc = "source"
    /\ CodecIdle
    /\ SizeIdle
    /\ build \in Builds
    /\ BITS \in BitsRange
    /\ COUNT \in 0..MaxCount
    /\ pattern = "none"
    /\ pushed = <<>>
    /\ writer = WriterNew
    /\ words \in Sources
    /\ iterator = words
    /\ reader = None
    /\ yielded = <<>>
    /\ nones = 0

Push ==
    /\ pc = "writing"
    /\ WriterElements(BITS, writer) < MaxWords * ELEMENTS_IN_LONG(BITS)
    /\ LET number == PatternValue(pattern, Len(pushed), BITS)
           assert == PushAssert(build, BITS, number)
       IN  IF assert = "overflow"
               THEN pc' = "panic: shift overflow" /\ UNCHANGED <<pushed, writer>>
           ELSE IF assert = "failed"
               THEN pc' = "panic: assertion failed" /\ UNCHANGED <<pushed, writer>>
           ELSE /\ writer' = WriterPush(BITS, writer, number)
                /\ pushed' = Append(pushed, number)
                /\ pc' = pc
    /\ UNCHANGED <<build, BITS, COUNT, pattern, words, iterator, reader, yielded, nones>>
    /\ UNCHANGED outsideCompact

Finish ==
    /\ pc = "writing"
    /\ words' = WriterFinish(writer)
    /\ iterator' = words'
    /\ COUNT' = Len(pushed)
    /\ pc' = "source"
    /\ UNCHANGED <<build, BITS, pattern, pushed, writer, reader, yielded, nones>>
    /\ UNCHANGED outsideCompact

NewReader ==
    /\ pc = "source"
    /\ reader' = ReaderNew(BITS, iterator)
    /\ iterator' = ReaderNewRest(iterator)
    /\ pc' = IF reader' = None THEN "empty" ELSE "reading"
    /\ UNCHANGED <<build, BITS, COUNT, pattern, pushed, writer, words, yielded, nones>>
    /\ UNCHANGED outsideCompact

\* one call of next; taking the unchecked value of an absent lookahead is
\* undefined behaviour, after which the reader holds any word
NextValue ==
    /\ pc = "reading"
    /\ nones < MaxNones
    /\ LET r == reader[1]
           l == ReaderLoaded(BITS, r, iterator)
       IN  IF ReaderAtEnd(BITS, COUNT, r)
               THEN /\ nones' = nones + 1
                    /\ UNCHANGED <<pc, reader, iterator, yielded>>
           ELSE IF ReaderLoads(BITS, r) /\ r.next_long = None
               THEN /\ pc' = "undefined"
                    /\ \E w \in WordSamples :
                          reader' = Some([r EXCEPT !.current_long = w, !.current_index = 0])
                    /\ UNCHANGED <<iterator, yielded, nones>>
           ELSE IF build = "debug" /\ ShiftOverflows(BITS)
               THEN /\ pc' = "panic: shift overflow"
                    /\ reader' = Some(l)
                    /\ iterator' = ReaderLoadedRest(BITS, r, iterator)
                    /\ UNCHANGED <<yielded, nones>>
           ELSE /\ yielded' = Append(yielded, ReaderResult(BITS, l))
                /\ reader' = Some(ReaderAdvanced(BITS, l))
                /\ iterator' = ReaderLoadedRest(BITS, r, iterator)
                /\ UNCHANGED <<pc, nones>>
    /\ UNCHANGED <<build, BITS, COUNT, pattern, pushed, writer, words>>
    /\ UNCHANGED outsideCompact

NextCompact ==
    \/ Push
    \/ Finish
    \/ NewReader
    \/ NextValue

NextReader ==
    \/ NewReader
    \/ NextValue

SpecCompact == InitCompact /\ [][NextCompact]_vars
SpecReader == InitReader /\ [][NextReader]_vars

\* ------------------------------------------------------------------------
\* The height map iteration process: ChunkDataHeightMap::into_iter builds a
\* CompactLongsReader<_, 9, 256> over the words of the map, and the caller
\* takes values from it.
\* ------------------------------------------------------------------------

HEIGHT_MAP_BITS == 9
HEIGHT_MAP_COUNT == 256

\* the items ChunkDataHeightMapInner::next returns one after the other: the
\* Raw view reads u64s off its bytes until a read fails, the Longs view takes
\* its words from the front
RECURSIVE InnerWords(_)
InnerWords(inner) ==
    IF inner.view = "Raw"
        THEN LET w == ReadU64(inner.data)
             IN  IF w.ok THEN <<w.v>> \o InnerWords(Raw(w.rest)) ELSE <<>>
        ELSE inner.data

\* a map made by new_raw or new_longs of 37 words, or returned by read
InitIter ==
    /\ pc = "map"
    /\ SizeIdle
    /\ kind = "heightmap"
    /\ value \in HeightMaps \cup {HeightMapRead(HeightMapWrite(m)).v : m \in HeightMaps}
    /\ tail = <<>>
    /\ wire = <<>>
    /\ result = Err
    /\ build \in Builds
    /\ BITS = HEIGHT_MAP_BITS
    /\ COUNT = HEIGHT_MAP_COUNT
    /\ pattern = "none"
    /\ pushed = <<>>
    /\ writer = WriterNew
    /\ words = <<>>
    /\ iterator = <<>>
    /\ reader = None
    /\ yielded = <<>>
    /\ nones = 0

\* into_iter: taking the unchecked value of the None that new returns for an
\* empty source is undefined behaviour, after which the reader is any reader
IntoIter ==
    /\ pc = "map"
    /\ words' = InnerWords(value)
    /\ iterator' = ReaderNewRest(words')
    /\ IF ReaderNew(BITS, words') = None
           THEN /\ pc' = "undefined"
                /\ \E w \in WordSamples :
                      reader' = Some([current_long |-> w, next_long |-> None,
                                      current_index |-> 0])
           ELSE /\ pc' = "reading"
                /\ reader' = ReaderNew(BITS, words')
    /\ UNCHANGED <<build, BITS, COUNT, pattern, pushed, writer, yielded, nones>>
    /\ UNCHANGED outsideCompact

NextIter ==
    \/ IntoIter
    \/ NextValue

SpecIter == InitIter /\ [][NextIter]_vars

\* ------------------------------------------------------------------------
\* The packet types: the id, state and bound of each #[bp(id = .., state = ..,
\* bound = ..)] attribute of a type that derives ProtocolPacket, in the order
\* of declaration.
\* ------------------------------------------------------------------------

Packet(name, id, state, bound) == [name |-> name, id |-> id, state |-> state, bound |-> bound]
Packets ==
    {Packet("Handshake", 0, "Handshake", "Server"),
     Packet("StatusResponseSS2C", 0, "Status", "Client"),
     Packet("PingResponseSS2C", 1, "Status", "Client"),
     Packet("StatusRequest", 0, "Status", "Server"),
     Packet("PingRequestSC2S", 1, "Status", "Server"),
     Packet("LoginDisconnectLS2C", 0, "Login", "Client"),
     Packet("EncryptionRequestLS2C", 1, "Login", "Client"),
     Packet("LoginSuccessLS2C", 2, "Login", "Client"),
     Packet("SetCompressionLS2C", 3, "Login", "Client"),
     Packet("LoginPluginRequestLS2C", 4, "Login", "Client"),
     Packet("LoginStartLC2S", 0, "Login", "Server"),
     Packet("EncryptionResponseLC2S", 1, "Login", "Server"),
     Packet("LoginPluginResponseLC2S", 2, "Login", "Server"),
     Packet("SpawnEntityPS2C", 0, "Play", "Client"),
     Packet("SpawnExperienceOrbPS2C", 1, "Play", "Client"),
     Packet("SpawnPlayerPS2C", 2, "Play", "Client"),
     Packet("EntityAnimationPS2C", 3, "Play", "Client"),
     Packet("AwardStatisticsPS2C", 4, "Play", "Client"),
     Packet("AcknowledgeBlockChangePS2C", 5, "Play", "Client"),
     Packet("SetBlockDestroyStagePS2C", 6, "Play", "Client"),
     Packet("BlockEntityDataPS2C", 7, "Play", "Client"),
     Packet("BlockActionPS2C", 8, "Play", "Client"),
     Packet("BlockUpdatePS2C", 9, "Play", "Client"),
     Packet("BossBarPS2C", 10, "Play", "Client"),
     Packet("ChangeDifficultyPS2C", 11, "Play", "Client"),
     Packet("ChatPreviewPS2C", 12, "Play", "Client"),
     Packet("ClearTitles", 13, "Play", "Client"),
     Packet("CommandSuggestionsResponsePS2C", 14, "Play", "Client"),
     Packet("CommandsPS2C", 15, "Play", "Client"),
     Packet("CloseContainerPS2C", 16, "Play", "Client"),
     Packet("SetContainerContentPS2C", 17, "Play", "Client"),
     Packet("SetContainerPropertyPS2C", 18, "Play", "Client"),
     Packet("SetContainerSlotPS2C", 19, "Play", "Client"),
     Packet("SetCooldownPS2C", 20, "Play", "Client"),
     Packet("ChatSuggestionsPS2C", 21, "Play", "Client"),
     Packet("PluginMessagePS2C", 22, "Play", "Client"),
     Packet("CustomSoundEffectPS2C", 23, "Play", "Client"),
     Packet("HideMessagePS2C", 24, "Play", "Client"),
     Packet("DisconnectPS2C", 25, "Play", "Client"),
     Packet("EntityEventPS2C", 26, "Play", "Client"),
     Packet("ExplosionPS2C", 27, "Play", "Client"),
     Packet("UnloadChunkPS2C", 28, "Play", "Client"),
     Packet("GameEventPS2C", 29, "Play", "Client"),
     Packet("OpenHorseScreenPS2C", 30, "Play", "Client"),
     Packet("InitializeWorldBorderPS2C", 30, "Play", "Client"),
     Packet("KeepAlivePS2C", 31, "Play", "Client")}

\* the packet types whose ID, STATE and BOUND constants are those of the key
PacketsOf(key) ==
    {p.name : p \in {q \in Packets : /\ q.id = key.id
                                     /\ q.state = key.state
                                     /\ q.bound = key.bound}}

\* a packet header: the connection's state, the direction and the id
\* received, which is a declared id or the first one past them
InitPackets ==
    /\ pc = "header"
    /\ CompactIdle
    /\ SizeIdle
    /\ kind = "packet"
    /\ LET ids == {p.id : p \in Packets}
           last == CHOOSE i \in ids : \A j \in ids : j <= i
       IN  value \in [id : 0..(last + 1),
                      state : {p.state : p \in Packets},
                      bound : {p.bound : p \in Packets}]
    /\ tail = <<>>
    /\ wire = <<>>
    /\ result = {}

\* the types the header selects
IdentifyPacket ==
    /\ pc = "header"
    /\ kind = "packet"
    /\ result' = PacketsOf(value)
    /\ pc' = "identified"
    /\ UNCHANGED <<kind, value, tail, wire>>
    /\ UNCHANGED outsideCodec

SpecPackets == InitPackets /\ [][IdentifyPacket]_vars

\* ------------------------------------------------------------------------
\* The container properties: the four enums that name the property field of
\* SetContainerPropertyPS2C and their conversions from and to i16.  A
\* property is the sequence of its variant and, for the enchantment table,
\* its slot.
\* ------------------------------------------------------------------------

I16 == (-(2 ^ 15))..(2 ^ 15 - 1)

FurnaceProperty ==
    {<<"FireIcon">>, <<"MaximumFuelBurnTime">>, <<"ProgressArrow">>, <<"MaximumProgress">>}
EnchantmentTableSlot == {"Top", "Middle", "Bottom"}
EnchantmentTableProperty ==
    {<<"LevelRequirement", s>> : s \in EnchantmentTableSlot}
        \cup {<<"Seed">>}
        \cup {<<"EnchantmentId", s>> : s \in EnchantmentTableSlot}
        \cup {<<"EnchantmentLevel", s>> : s \in EnchantmentTableSlot}
BeaconProperty == {<<"PowerLevel">>, <<"FirstPotionEffect">>, <<"SecondPotionEffect">>}
BrewingStandProperty == {<<"BrewTime">>, <<"FuelTime">>}

PropertyTypes ==
    {"FurnaceProperty", "EnchantmentTableProperty", "BeaconProperty", "BrewingStandProperty"}
PropertiesOf(ty) ==
    CASE ty = "FurnaceProperty" -> FurnaceProperty
      [] ty = "EnchantmentTableProperty" -> EnchantmentTableProperty
      [] ty = "BeaconProperty" -> BeaconProperty
      [] ty = "BrewingStandProperty" -> BrewingStandProperty

\* TryFrom<i16> for ty
try_from(ty, code) ==
    LET Okay(p) == [ok |-> TRUE, v |-> p]
        Refused == [ok |-> FALSE, v |-> <<>>]
    IN  CASE ty = "FurnaceProperty" ->
                (CASE code = 0 -> Okay(<<"FireIcon">>)
                   [] code = 1 -> Okay(<<"MaximumFuelBurnTime">>)
                   [] code = 2 -> Okay(<<"ProgressArrow">>)
                   [] code = 3 -> Okay(<<"MaximumProgress">>)
                   [] OTHER -> Refused)
          [] ty = "EnchantmentTableProperty" ->
                (CASE code = 0 -> Okay(<<"LevelRequirement", "Top">>)
                   [] code = 1 -> Okay(<<"LevelRequirement", "Middle">>)
                   [] code = 2 -> Okay(<<"LevelRequirement", "Bottom">>)
                   [] code = 3 -> Okay(<<"Seed">>)
                   [] code = 4 -> Okay(<<"EnchantmentId", "Top">>)
                   [] code = 5 -> Okay(<<"EnchantmentId", "Middle">>)
                   [] code = 6 -> Okay(<<"EnchantmentId", "Bottom">>)
                   [] code = 7 -> Okay(<<"EnchantmentLevel", "Top">>)
                   [] code = 8 -> Okay(<<"EnchantmentLevel", "Middle">>)
                   [] code = 9 -> Okay(<<"EnchantmentLevel", "Bottom">>)
                   [] OTHER -> Refused)
          [] ty = "BeaconProperty" ->
                (CASE code = 0 -> Okay(<<"PowerLevel">>)
                   [] code = 1 -> Okay(<<"FirstPotionEffect">>)
                   [] code = 2 -> Okay(<<"SecondPotionEffect">>)
                   [] OTHER -> Refused)
          [] ty = "BrewingStandProperty" ->
                (CASE code = 0 -> Okay(<<"BrewTime">>)
                   [] code = 1 -> Okay(<<"FuelTime">>)
                   [] OTHER -> Refused)

\* the code as the position of the variant in its enum, whatever its slot
from_Discriminant(ty, property) ==
    LET variants ==
            CASE ty = "FurnaceProperty" ->
                    <<"FireIcon", "MaximumFuelBurnTime", "ProgressArrow", "MaximumProgress">>
              [] ty = "EnchantmentTableProperty" ->
                    <<"LevelRequirement", "Seed", "EnchantmentId", "EnchantmentLevel">>
              [] ty = "BeaconProperty" ->
                    <<"PowerLevel", "FirstPotionEffect", "SecondPotionEffect">>
              [] ty = "BrewingStandProperty" -> <<"BrewTime", "FuelTime">>
    IN  (CHOOSE i \in DOMAIN variants : variants[i] = property[1]) - 1

\* From<ty> for i16
from(ty, property) ==
    CASE ty = "FurnaceProperty" ->
            (CASE property = <<"FireIcon">> -> 0
               [] property = <<"MaximumFuelBurnTime">> -> 1
               [] property = <<"ProgressArrow">> -> 2
               [] property = <<"MaximumProgress">> -> 3)
      [] ty = "EnchantmentTableProperty" ->
            (CASE property = <<"LevelRequirement", "Top">> -> 0
               [] property = <<"LevelRequirement", "Middle">> -> 1
               [] property = <<"LevelRequirement", "Bottom">> -> 2
               [] property = <<"Seed">> -> 3
               [] property = <<"EnchantmentId", "Top">> -> 4
               [] property = <<"EnchantmentId", "Middle">> -> 5
               [] property = <<"EnchantmentId", "Bottom">> -> 6
               [] property = <<"EnchantmentLevel", "Top">> -> 7
               [] property = <<"EnchantmentLevel", "Middle">> -> 8
               [] property = <<"EnchantmentLevel", "Bottom">> -> 9)
      [] ty = "BeaconProperty" ->
            (CASE property = <<"PowerLevel">> -> 0
               [] property = <<"FirstPotionEffect">> -> 1
               [] property = <<"SecondPotionEffect">> -> 2)
      [] ty = "BrewingStandProperty" ->
            (CASE property = <<"BrewTime">> -> 0
               [] property = <<"FuelTime">> -> 1)

\* a property to turn into its code and back, or a code received in the
\* property field to turn into a property and back
InitProperty ==
    /\ CompactIdle
    /\ SizeIdle
    /\ tail = <<>>
    /\ wire = <<>>
    /\ result = Err
    /\ \E ty \in PropertyTypes :
          \/ /\ pc = "property"
             /\ kind = "property"
             /\ \E p \in PropertiesOf(ty) : value = [ty |-> ty, property |-> p]
          \/ /\ pc = "code"
             /\ kind = "code"
             /\ \E x \in I16 : value = [ty |-> ty, code |-> x]

\* i16::from of the property given, or of the property try_from returned
From ==
    /\ \/ pc = "property"
       \/ pc = "converted" /\ kind = "code" /\ result.ok
    /\ wire' = <<from(value.ty, IF pc = "property" THEN value.property ELSE result.v)>>
    /\ pc' = (IF pc = "property" THEN "code" ELSE "back")
    /\ UNCHANGED <<kind, value, tail, result>>
    /\ UNCHANGED outsideCodec

\* ty::try_from of the code received, or of the code i16::from returned
TryFrom ==
    /\ pc = "code"
    /\ kind \in {"property", "code"}
    /\ result' = try_from(value.ty, IF kind = "code" THEN value.code ELSE wire[1])
    /\ pc' = "converted"
    /\ UNCHANGED <<kind, value, tail, wire>>
    /\ UNCHANGED outsideCodec

NextProperty ==
    \/ From
    \/ TryFrom

SpecProperty == InitProperty /\ [][NextProperty]_vars

\* ------------------------------------------------------------------------
\* The size derive process: impl_derive on one item.  A struct and a union
\* are settled in one step; for an enum the loop over the variants takes a
\* step per variant, and the key is looked at after it.
\* ------------------------------------------------------------------------

MaxFields == 3
MaxVariants == 2
MaxVariantFields == 1

FieldSamples ==
    {Field(Type(U32(1), U32(1)), None),
     Field(Type(U32(4), U32(4)), Some(Type(U32(1), U32(5)))),
     Field(Type(U32(8), U32(8)), Some(Type(U32(1), U32(10)))),
     Field(Type(U32(0), U32Max), None),
     Field(Type(U32(1), U32(3)), Some(Type(<<Half \div 2, 0>>, <<Half - 1, 7>>)))}
\* the fields of the variants of an enum
VariantFieldSamples ==
    {Field(Type(U32(1), U32(1)), None),
     Field(Type(U32(1), U32(3)), Some(Type(<<Half \div 2, 0>>, <<Half - 1, Half - 3>>)))}
\* the byte sizes of a variant's ghost constants: no ghost; (begin, 1u8);
\* (begin, 1u8) and (end, 0u8)
GhostSamples == {<<>>, <<1>>, <<1, 1>>}

SeqsUpTo(S, n) == UNION {[1..k -> S] : k \in 0..n}

Structs ==
    {[data |-> "struct", fields |-> fs, variants |-> <<>>, key_ty |-> kt, key_variant |-> None] :
        fs \in SeqsUpTo(FieldSamples, MaxFields), kt \in {None}}
VariantSamples ==
    {Variant(fs, g) : fs \in SeqsUpTo(VariantFieldSamples, MaxVariantFields), g \in GhostSamples}
Enums ==
    {[data |-> "enum", fields |-> <<>>, variants |-> vs, key_ty |-> kt, key_variant |-> kv] :
        vs \in SeqsUpTo(VariantSamples, MaxVariants) \ {<<>>},
        kt \in {None, Some(Type(U32(4), U32(4)))},
        kv \in {None, Some(Type(U32(1), U32(5)))}}
Unions ==
    {[data |-> "union", fields |-> fs, variants |-> <<>>, key_ty |-> kt, key_variant |-> None] :
        fs \in SeqsUpTo(FieldSamples, 1), kt \in {None, Some(Type(U32(4), U32(4)))}}

InitSize ==
    /\ pc = "derive"
    /\ CodecIdle
    /\ CompactIdle
    /\ item \in Structs \cup Enums \cup Unions
    /\ min_variants_size = <<>>
    /\ max_variants_size = <<>>
    /\ size = NoSize

DeriveStruct ==
    /\ pc = "derive"
    /\ item.data = "struct"
    /\ size' = StructSize(item)
    /\ pc' = "done"
    /\ UNCHANGED <<item, min_variants_size, max_variants_size>>
    /\ UNCHANGED outsideSize

\* one turn of the loop over data_enum.variants
DeriveVariant ==
    /\ pc = "derive"
    /\ item.data = "enum"
    /\ Len(min_variants_size) < Len(item.variants)
    /\ LET vs == VariantSize(item.variants[Len(min_variants_size) + 1])
       IN  /\ min_variants_size' = Append(min_variants_size, vs[1])
           /\ max_variants_size' = Append(max_variants_size, vs[2])
    /\ UNCHANGED <<pc, item, size>>
    /\ UNCHANGED outsideSize

DeriveEnum ==
    /\ pc = "derive"
    /\ item.data = "enum"
    /\ Len(min_variants_size) = Len(item.variants)
    /\ size' = EnumSize(item, min_variants_size, max_variants_size)
    /\ pc' = "done"
    /\ UNCHANGED <<item, min_variants_size, max_variants_size>>
    /\ UNCHANGED outsideSize

DeriveUnion ==
    /\ pc = "derive"
    /\ item.data = "union"
    /\ size' = UnionSize
    /\ pc' = "done"
    /\ UNCHANGED <<item, min_variants_size, max_variants_size>>
    /\ UNCHANGED outsideSize

NextSize ==
    \/ DeriveStruct
    \/ DeriveVariant
    \/ DeriveEnum
    \/ DeriveUnion

SpecSize == InitSize /\ [][NextSize]_vars

\* ------------------------------------------------------------------------
\* Claims
\* ------------------------------------------------------------------------

\* C1: BrigadierNodeRangeProperties round trip: whatever combination of min
\* and max is present, read applied to the bytes produced by write returns a
\* value equal to the original and consumes exactly the bytes written.
C1_RangeRoundTrip ==
    (pc = "read" /\ kind = "range") =>
        /\ result.ok
        /\ result.v = value
        /\ result.rest = tail

\* C2: BrigadierNode round trip: for every node in which a parser is present
\* only when a name is present, read applied to the bytes produced by write
\* returns a node equal to the original in all six fields.
C2_NodeRoundTrip ==
    (pc = "read" /\ kind = "node" /\ (IsSome(value.parser) => IsSome(value.name))) =>
        /\ result.ok
        /\ result.v = value

\* C3: ChunkDataHeightMap round trip under the type's derived equality: for a
\* height map of 37 words, built with new_raw or with new_longs, read applied
\* to the bytes produced by write returns a value that compares equal to it.
C3_HeightMapRoundTrip ==
    (pc = "read" /\ kind = "heightmap") =>
        /\ result.ok
        /\ HeightMapEq(result.v, value)

\* ceil(n / e)
Ceil(n, e) == (n + e - 1) \div e

IsPrefix(s, t) == Len(s) <= Len(t) /\ \A i \in 1..Len(s) : s[i] = t[i]

\* the caller has kept push's contract: every number pushed fits in BITS bits
AllFit == \A i \in 1..Len(pushed) : Fits(pushed[i], BITS)

\* C4: bit-packed duality: pushing n >= 1 values that fit in BITS bits, calling
\* finish and iterating a reader with the same BITS and COUNT = n over the
\* resulting words yields exactly the original values in order and nothing more.
C4_Duality ==
    (pc = "reading" /\ AllFit /\ pushed # <<>>) =>
        /\ IsPrefix(yielded, pushed)
        /\ nones >= 1 => yielded = pushed

\* the words the layout rule prescribes for the values vs
LayoutWord(bits, vs, j) ==
    UNION {{b + ((i - 1) % ELEMENTS_IN_LONG(bits)) * bits + GAP(bits) : b \in vs[i]} :
              i \in {k \in 1..Len(vs) : (k - 1) \div ELEMENTS_IN_LONG(bits) = j - 1}}
Layout(bits, vs) ==
    [j \in 1..Ceil(Len(vs), ELEMENTS_IN_LONG(bits)) |-> LayoutWord(bits, vs, j)]

\* C5: writer layout: after pushing n values that fit, finish returns exactly
\* ceil(n/E) words, word j holding v_i at bit offset (i mod E)*BITS + G for the
\* i with floor(i/E) = j, and every other bit zero.
C5_WriterLayout ==
    (pc \in {"source", "reading", "empty"} /\ pattern # "none" /\ AllFit) =>
        words = Layout(BITS, pushed)

\* a writer has finished whose last word is exactly full and is not the only
\* one, with a gap in each word
C5_Witness ==
    /\ pc = "source"
    /\ pattern = "stairs"
    /\ GAP(BITS) > 0
    /\ ELEMENTS_IN_LONG(BITS) > 1
    /\ Len(pushed) = 2 * ELEMENTS_IN_LONG(BITS)
    /\ Len(words) = 2

\* the BITS-bit field number k (from 0) of the source ws
BitField(bits, ws, k) ==
    {b \in 0..(bits - 1) :
        b + (k % (WordBits \div bits)) * bits + (WordBits % bits)
            \in ws[(k \div (WordBits \div bits)) + 1]}

\* C6: reader decoding: for COUNT >= 1 and a source of exactly ceil(COUNT/E)
\* words, next returns exactly COUNT values, the k-th being the BITS-bit field
\* at bit offset (k mod E)*BITS + G of word floor(k/E), and then None.
C6_ReaderDecoding ==
    (pc = "reading" /\ COUNT >= 1 /\ Len(words) = Ceil(COUNT, WordBits \div BITS)) =>
        /\ Len(yielded) <= COUNT
        /\ \A k \in 1..Len(yielded) : k <= COUNT => yielded[k] = BitField(BITS, words, k - 1)
        /\ nones >= 1 => Len(yielded) = COUNT

\* C7: the reader unpacks exactly COUNT values: over any source that holds at
\* least ceil(COUNT / floor(64/BITS)) words it stops once it has produced COUNT
\* values and never yields a (COUNT+1)-th.
C7_ExactlyCount ==
    (pc = "reading" /\ Len(words) >= Ceil(COUNT, WordBits \div BITS)) =>
        /\ Len(yielded) <= COUNT
        /\ nones >= 1 => Len(yielded) = COUNT

\* the sum of a sequence of u32s, clamped at 2^32 - 1
RECURSIVE SumHalf(_, _)
SumHalf(a, h) == IF a = <<>> THEN 0 ELSE Head(a)[h] + SumHalf(Tail(a), h)
ClampedSum(a) ==
    LET low == SumHalf(a, 2)
        high == SumHalf(a, 1) + (low \div Half)
    IN  IF high >= Half THEN U32Max ELSE <<high, low % Half>>

\* the bound a field contributes: its override's when one is declared, that
\* of its declared type otherwise
FieldStart(f) == IF f.variant # None THEN f.variant[1].start ELSE f.ty.start
FieldEnd(f) == IF f.variant # None THEN f.variant[1].end ELSE f.ty.end
FieldsStart(fs) == ClampedSum([i \in 1..Len(fs) |-> FieldStart(fs[i])])
FieldsEnd(fs) == ClampedSum([i \in 1..Len(fs) |-> FieldEnd(fs[i])])
GhostBytes(g) == [i \in 1..Len(g) |-> U32(g[i])]

\* C8: the variant minimum and maximum the size derive computes for a variant
\* that declares ghost bytes each include the total byte size of the ghost
\* constants on top of the sum of the variant's field bounds.
C8_GhostFolded ==
    (pc \in {"derive", "done"} /\ item.data = "enum") =>
        \A i \in 1..Len(min_variants_size) :
            item.variants[i].ghost # <<>> =>
                /\ min_variants_size[i] =
                       ClampedSum(<<FieldsStart(item.variants[i].fields)>>
                                    \o GhostBytes(item.variants[i].ghost))
                /\ max_variants_size[i] =
                       ClampedSum(<<FieldsEnd(item.variants[i].fields)>>
                                    \o GhostBytes(item.variants[i].ghost))

\* C9: derived struct bound: SIZE is (sum of field minimums .. sum of field
\* maximums), a field contributing the bound of its `variant` override when one
\* is declared and that of its declared type otherwise (the sums clamped at
\* 2^32 - 1, as every addition of the derive is).
C9_StructBound ==
    (pc = "done" /\ item.data = "struct") =>
        /\ size.ok
        /\ size.start = FieldsStart(item.fields)
        /\ size.end = FieldsEnd(item.fields)

\* a struct has been derived that has a field with an override, whose bound
\* differs from that of the declared type, and a field without
C9_Witness ==
    /\ pc = "done"
    /\ item.data = "struct"
    /\ size.ok
    /\ \E i \in 1..Len(item.fields) :
          /\ item.fields[i].variant # None
          /\ item.fields[i].variant[1] # item.fields[i].ty
    /\ \E i \in 1..Len(item.fields) : item.fields[i].variant = None

Smallest(S) == CHOOSE x \in S : \A y \in S : ~U32Less(y, x)
Largest(S) == CHOOSE x \in S : \A y \in S : ~U32Less(x, y)
Discriminant(it) == IF it.key_variant # None THEN it.key_variant[1] ELSE it.key_ty[1]

\* C10: derived enum bound: SIZE.start = discriminant minimum + the smallest
\* variant minimum and SIZE.end = discriminant maximum + the largest variant
\* maximum, a variant's bound being the sum over its fields and the
\* discriminant's that of the key `variant` override when declared and of the
\* key `ty` otherwise.
C10_EnumBound ==
    (pc = "done" /\ item.data = "enum"
        /\ (item.key_ty # None \/ item.key_variant # None)) =>
        /\ size.ok
        /\ size.start =
               ClampedSum(<<Discriminant(item).start,
                            Smallest({FieldsStart(item.variants[i].fields) :
                                          i \in 1..Len(item.variants)})>>)
        /\ size.end =
               ClampedSum(<<Discriminant(item).end,
                            Largest({FieldsEnd(item.variants[i].fields) :
                                         i \in 1..Len(item.variants)})>>)

\* an enum with both a key `ty` and a key `variant` has been derived, whose
\* variants differ in minimum and in maximum
C10_Witness ==
    /\ pc = "done"
    /\ item.data = "enum"
    /\ size.ok
    /\ item.key_ty # None
    /\ item.key_variant # None
    /\ Len(item.variants) = 2
    /\ min_variants_size[1] # min_variants_size[2]
    /\ max_variants_size[1] # max_variants_size[2]

\* the operands of the additions the derive performs over a field list
FieldMins(fs) == [i \in 1..Len(fs) |-> min_size_ts(FieldSizeType(fs[i]))]
FieldMaxs(fs) == [i \in 1..Len(fs) |-> max_size_ts(FieldSizeType(fs[i]))]
\* the exact sum of a sequence of u32s is 2^32 or more
Overflows(a) == SumHalf(a, 1) + (SumHalf(a, 2) \div Half) >= Half
\* s is not below any of the operands
NotBelow(s, a) == \A i \in 1..Len(a) : ~U32Less(s, a[i])

\* C11: saturation of derived bounds: every addition performed for a derived
\* bound (the sum over a struct's or a variant's fields, and the discriminant
\* plus the variant minimum/maximum) yields min(exact sum, 2^32 - 1), and so
\* never wraps around to a value smaller than an operand.
C11_Saturation ==
    /\ (pc = "done" /\ item.data = "struct") =>
          /\ size.start = ClampedSum(FieldMins(item.fields))
          /\ size.end = ClampedSum(FieldMaxs(item.fields))
          /\ NotBelow(size.start, FieldMins(item.fields))
          /\ NotBelow(size.end, FieldMaxs(item.fields))
    /\ (pc \in {"derive", "done"} /\ item.data = "enum") =>
          \A i \in 1..Len(min_variants_size) :
              /\ min_variants_size[i] = ClampedSum(FieldMins(item.variants[i].fields))
              /\ max_variants_size[i] = ClampedSum(FieldMaxs(item.variants[i].fields))
              /\ NotBelow(min_variants_size[i], FieldMins(item.variants[i].fields))
              /\ NotBelow(max_variants_size[i], FieldMaxs(item.variants[i].fields))
    /\ (pc = "done" /\ item.data = "enum" /\ size.ok) =>
          LET mins == <<min_size_ts(KeyType(item)[1]), min_u32_array(min_variants_size)>>
              maxs == <<max_size_ts(KeyType(item)[1]), max_u32_array(max_variants_size)>>
          IN  /\ size.start = ClampedSum(mins)
              /\ size.end = ClampedSum(maxs)
              /\ NotBelow(size.start, mins)
              /\ NotBelow(size.end, maxs)

\* an enum has been derived for which the discriminant maximum plus the
\* largest variant maximum is 2^32 or more, while the sum of the minimums
\* stays below it
C11_Witness ==
    /\ pc = "done"
    /\ item.data = "enum"
    /\ size.ok
    /\ Overflows(<<max_size_ts(KeyType(item)[1]), max_u32_array(max_variants_size)>>)
    /\ ~Overflows(<<min_size_ts(KeyType(item)[1]), min_u32_array(min_variants_size)>>)
    /\ size.end = U32Max

\* the number the next push is called with
NextNumber == PatternValue(pattern, Len(pushed), BITS)

\* C12: writer precondition check: in a build with debug assertions, push
\* fails its assertion for every number that does not fit in BITS bits (every
\* number >= 2^BITS) and passes it for every number that does fit.
C12_PushAssert ==
    (build = "debug" /\ pattern # "none") =>
        /\ AllFit
        /\ pc \in {"panic: assertion failed", "panic: shift overflow"}
               => ~Fits(NextNumber, BITS)


\* a <= b for u32s
U32Leq(a, b) == ~U32Less(b, a)

\* C13: size-bound soundness of the BrigadierNodeRangeProperties codec: for
\* every value (min and max each present or absent) the number of bytes write
\* produces lies within the declared SIZE, the sum of the bounds of Option<T>,
\* Option<T> and u8; in particular the value with neither bound present is not
\* shorter than SIZE.start.
C13_RangeSizeSound ==
    (pc \in {"written", "read"} /\ kind = "range") =>
        /\ U32Leq(RangeSize("i32").start, U32(Len(wire)))
        /\ U32Leq(U32(Len(wire)), RangeSize("i32").end)


\* the payload of the stream's entry named MOTION_BLOCKING when that entry is
\* a long array of exactly 37 * 8 bytes, as an Option
RequiredEntry(s) ==
    LET hits == {i \in 1..Len(s.entries) :
                    /\ s.entries[i][1] = TAG_LONG_ARRAY
                    /\ s.entries[i][2] = CHUNK_DATA_HEIGHT_MAP_KEY
                    /\ Len(s.entries[i][3]) = HEIGHT_MAP_LONGS * 8}
    IN  IF hits = {} THEN None ELSE Some(s.entries[CHOOSE i \in hits : TRUE][3])

\* C14: ChunkDataHeightMap::read succeeds exactly when the embedded compound
\* contains an entry named MOTION_BLOCKING that is a long array whose payload is
\* exactly 37*8 bytes, and then returns a view of that payload; when the entry
\* is absent, has another tag type or any other length, or when entering the
\* compound or reading the tag fails, read returns an error and no value.
C14_ReadRequiresEntry ==
    (pc = "read" /\ kind = "stream") =>
        /\ (value.root = TAG_COMPOUND /\ value.cut = 0) =>
              /\ result.ok <=> RequiredEntry(value) # None
              /\ result.ok => result.v = Raw(RequiredEntry(value)[1]) /\ result.rest = tail
        /\ (value.root # TAG_COMPOUND \/ (value.cut > 0 /\ tail = <<>>)) => result = Err

\* a stream has been read and accepted that holds the required entry after an
\* entry of another name
C14_Witness ==
    /\ pc = "read"
    /\ kind = "stream"
    /\ value.root = TAG_COMPOUND
    /\ value.cut = 0
    /\ Len(value.entries) = 2
    /\ value.entries[1][2] # CHUNK_DATA_HEIGHT_MAP_KEY
    /\ result.ok
    /\ result.v = Raw(value.entries[2][3])


C16_FramingSymmetry ==
    (pc \in {"written", "read"} /\ kind = "node") =>
        LET flags == wire[1]
            emitted == <<NodeWriteRedirect(value) # <<>>, NodeWriteName(value) # <<>>,
                         NodeWriteParser(value) # <<>>, NodeWriteSuggestions(value) # <<>>>>
            consumed == <<FlagsRedirect(flags),
                          FlagsNodeType(flags) \in {LITERAL_NODE_TYPE, ARGUMENT_NODE_TYPE},
                          FlagsNodeType(flags) = ARGUMENT_NODE_TYPE,
                          FlagsSuggestionsType(flags)>>
        IN  emitted = consumed


\* C17: every shift is in range for every permitted width: for each BITS from
\* 1 to 64 and any sequence of operations, no shift by 64 or more bits is
\* evaluated in CompactLongsWriter::push (including its debug assertion) or in
\* CompactLongsReader::new and next, and the reader's extraction mask equals
\* 2^BITS - 1.
C17_ShiftsInRange ==
    (pattern # "none") =>
        /\ pc # "panic: shift overflow"
        /\ (build = "debug" /\ pushed # <<>>) => ~ShiftOverflows(BITS + 1)
        /\ \A i \in 1..Len(pushed) :
              ~ShiftOverflows(((i - 1) % ELEMENTS_IN_LONG(BITS)) * BITS + GAP(BITS))
        /\ reader # None => ~ShiftOverflows(WordBits % BITS)
        /\ yielded # <<>> =>
              /\ ~ShiftOverflows(BITS)
              /\ ReaderMask(BITS) = 0..(BITS - 1)


\* the 37 words a height map views
WordsOf(hm) ==
    CHOOSE ws \in HeightMapWords :
        hm \in {Longs(ws), Raw(Concat([i \in 1..Len(ws) |-> WriteU64(ws[i])]))}

\* C18: iterating a ChunkDataHeightMap that holds 37 words (built by new_raw
\* from 37*8 bytes, by new_longs from 37 words, or returned by read) yields
\* exactly 256 values, each below 2^9, and then ends; constructing the iterator
\* never finds the word source empty, and the byte view and the word view of
\* the same 37 words yield the same 256 values.
C18_HeightMapIteration ==
    (kind = "heightmap" /\ pc \notin {"map", "start", "written", "read"}) =>
        LET ws == WordsOf(value)
        IN  /\ pc # "undefined"
            /\ Len(words) = HEIGHT_MAP_LONGS
            /\ Len(yielded) <= 256
            /\ nones >= 1 => Len(yielded) = 256
            /\ \A k \in 1..Len(yielded) :
                  /\ Fits(yielded[k], 9)
                  /\ yielded[k] = BitField(9, ws, k - 1)

\* the byte view of 37 words that differ from each other has been iterated
\* to its end
C18_Witness ==
    /\ kind = "heightmap"
    /\ pc = "reading"
    /\ value.view = "Raw"
    /\ nones >= 1
    /\ Len(yielded) = 256
    /\ \E j, k \in 1..Len(yielded) : yielded[j] # yielded[k]
    /\ words[1] # words[2]


\* C19: redirect codec symmetry in BrigadierNode: when redirect_node is
\* present, write encodes it with the wire representation read decodes it with
\* (the variable-length integer encoding), so that the redirect value occupies
\* the same bytes in both directions.
C19_RedirectSymmetry ==
    (pc \in {"written", "read"} /\ kind = "node" /\ value.redirect_node # None) =>
        /\ NodeWriteRedirect(value) = WriteVarInt(value.redirect_node[1])
        /\ ReadVarInt(NodeWriteRedirect(value)) = Ok(value.redirect_node[1], <<>>)


\* (w - 1)*E + r, with E = floor(64/BITS) and r = COUNT mod E taken as E when
\* that remainder is 0
YieldCount(bits, count, w) ==
    LET E == WordBits \div bits
        r == IF count % E = 0 THEN E ELSE count % E
    IN  (w - 1) * E + r

\* C20: the number of values the reader yields is fixed by the length of its
\* source: a reader built over a source of w >= 1 words yields exactly
\* (w - 1)*E + r values before its first None; CompactLongsReader::new returns
\* None exactly when the source is empty.
C20_YieldCount ==
    (pattern = "none" /\ kind = "none" /\ pc # "source") =>
        /\ (reader = None) <=> (words = <<>>)
        /\ (pc = "empty") <=> (words = <<>>)
        /\ pc # "undefined"
        /\ words # <<>> =>
              /\ Len(yielded) <= YieldCount(BITS, COUNT, Len(words))
              /\ nones >= 1 => Len(yielded) = YieldCount(BITS, COUNT, Len(words))

\* a reader over three words has returned None after yielding a number of
\* values that is not COUNT, with COUNT not a multiple of the elements in a word
C20_Witness ==
    /\ pattern = "none"
    /\ kind = "none"
    /\ pc = "reading"
    /\ nones >= 1
    /\ Len(words) = 3
    /\ COUNT % (WordBits \div BITS) # 0
    /\ Len(yielded) # COUNT
    /\ Len(yielded) = YieldCount(BITS, COUNT, 3)


\* C21: the reader never takes the unchecked value of an absent lookahead
\* word: for every BITS, every COUNT (including 0 and multiples of
\* floor(64/BITS)), every source length >= 1 and any number of calls to next
\* (including calls after None was returned), the step that loads the next
\* word is reached only while the lookahead holds a word.
C21_LookaheadPresent ==
    (pattern = "none" /\ kind = "none") =>
        /\ pc # "undefined"
        /\ (pc = "reading" /\ ReaderLoads(BITS, reader[1])
                /\ ~ReaderAtEnd(BITS, COUNT, reader[1]))
               => reader[1].next_long # None

\* a reader over three words, with COUNT a multiple of the elements in a word,
\* has loaded its last word, yielded all of it and been called again after None
C21_Witness ==
    /\ pattern = "none"
    /\ kind = "none"
    /\ pc = "reading"
    /\ Len(words) = 3
    /\ WordBits \div BITS > 1
    /\ COUNT % (WordBits \div BITS) = 0
    /\ Len(yielded) = 3 * (WordBits \div BITS)
    /\ reader[1].next_long = None
    /\ ReaderLoads(BITS, reader[1])
    /\ nones = 2


\* C22: BrigadierNode::read never rejects a flag byte because of its node-type
\* bits: the value 3, which is none of ROOT (0), LITERAL (1) and ARGUMENT (2),
\* is decoded exactly like ARGUMENT (a name followed by a parser are read), and
\* no invalid-node-type error exists.
C22_NodeTypeThree ==
    (pc = "read" /\ kind = "nodestream") =>
        /\ result.ok
        /\ result.rest = tail
        /\ FlagsNodeType(value.flags) = 3 =>
              /\ result.v.name = Some(value.name)
              /\ result.v.parser # None
              /\ result.v.parser[1].id = value.parser.id
              /\ result = NodeRead(<<value.flags - 1>> \o Tail(wire) \o tail)

\* a stream whose flag byte has the node type 3 and announces a suggestions
\* type has been read
C22_Witness ==
    /\ pc = "read"
    /\ kind = "nodestream"
    /\ FlagsNodeType(value.flags) = 3
    /\ FlagsSuggestionsType(value.flags)
    /\ result.ok
    /\ result.v.parser # None
    /\ result.v.suggestions_type = Some(value.suggestions)


\* C23: packet ids identify packets: no two packet types with the same
\* protocol state and the same bound declare the same id, so a header selects
\* at most one type.
C23_PacketIdsUnique ==
    (kind = "packet" /\ pc = "identified") => Cardinality(result) <= 1


\* C24: container-property codes round-trip: try_from(i16::from(p)) is Ok(p)
\* for every property p of the four enums; for every 16-bit x, try_from(x) is
\* Ok exactly when x lies in 0..=3 (furnace), 0..=9 (enchantment table),
\* 0..=2 (beacon) or 0..=1 (brewing stand), the result then converts back to
\* x, and try_from(x) is Err otherwise, for every negative x too.
C24_PropertyRoundTrip ==
    LET last == CASE value.ty = "FurnaceProperty" -> 3
                  [] value.ty = "EnchantmentTableProperty" -> 9
                  [] value.ty = "BeaconProperty" -> 2
                  [] value.ty = "BrewingStandProperty" -> 1
    IN  /\ (kind = "property" /\ pc = "converted") =>
               /\ result.ok
               /\ result.v = value.property
        /\ (kind = "code" /\ pc \in {"converted", "back"}) =>
               /\ result.ok <=> value.code \in 0..last
               /\ value.code < 0 => ~result.ok
        /\ (kind = "code" /\ pc = "back") => wire = <<value.code>>

C24_Witness ==
    /\ kind = "code"
    /\ pc = "back"
    /\ value = [ty |-> "EnchantmentTableProperty", code |-> 9]
    /\ result.v = <<"EnchantmentLevel", "Bottom">>

=============================================================================
